---- MODULE Spec2Model ----
(***************************************************************************)
(* Model of the Fabry-Perot loss-measurement routine:                      *)
(*   scan.py        PowerScanGUI (GUI thread) and ScanThread (worker)      *)
(*   powermeter.py  FieldMax power meter adapter                           *)
(*   tunics_laser.py  Tunics tunable laser adapter                         *)
(*   FP_analysis.py the offline normalisation / loss script                *)
(*                                                                         *)
(* The worker's signals (new_data, scan_finished) are connected to slots   *)
(* of the GUI object, which lives in another thread: Qt queues each        *)
(* emission in the GUI thread's event queue and the GUI handles them in    *)
(* order when it is back in its event loop.  `events` is that queue.       *)
(* log_signal only appends text to the console, which nothing reads; the   *)
(* error messages a worker logs are kept in its history instead.           *)
(***************************************************************************)
EXTENDS Integers, Sequences, FiniteSets, TLC

(***************************************************************************)
(* Bounds of the model.                                                    *)
(***************************************************************************)
\* ScanThread objects alive at once: running, or with signals still queued
MaxScans == 2
\* the power meter returns a reading in 1..MaxReading
MaxReading == 2
\* length of the spectra handed to the normaliser
MaxLen == 2

(***************************************************************************)
(* Python floats (IEEE-754 binary64).  A non-negative float is held        *)
(* exactly, as an integer count of 2^-(FracLimbs*LimbBits), written in     *)
(* little-endian limbs of LimbBits bits so that no intermediate value      *)
(* leaves the 32-bit integers of TLC.  Every float in              *)
(* [0.00001, 21474] is a multiple of that unit.                            *)
(***************************************************************************)
LimbBits == 13
Base == 2^LimbBits
NLimbs == 9
FracLimbs == 6
\* significand width of a binary64
MantBits == 53
\* the input fields take at most 5 decimals: a text is D / 10^5
TextScale == 10^5

Pow2(k) == 2^k

ToLimbs(n) == [i \in 1..NLimbs |-> IF i <= 3 THEN (n \div (Base^(i-1))) % Base ELSE 0]

ShiftLimbs(x, k) == [i \in 1..NLimbs |-> IF i > k THEN x[i-k] ELSE 0]

RECURSIVE DivRem(_, _, _, _)
\* long division of x by the small number d, from limb i down: <<quotient, remainder>>
DivRem(x, d, i, r) ==
    IF i = 0 THEN <<x, r>>
    ELSE LET cur == r * Base + x[i]
         IN  DivRem([x EXCEPT ![i] = cur \div d], d, i - 1, cur % d)

RECURSIVE TopLimb(_, _)
TopLimb(x, i) == IF i = 0 THEN 0 ELSE IF x[i] # 0 THEN i ELSE TopLimb(x, i - 1)

RECURSIVE Width(_)
Width(n) == IF n = 0 THEN 0 ELSE 1 + Width(n \div 2)

BitLen(x) ==
    LET t == TopLimb(x, NLimbs)
    IN  IF t = 0 THEN 0 ELSE (t - 1) * LimbBits + Width(x[t])

Bit(x, k) == (x[(k \div LimbBits) + 1] \div Pow2(k % LimbBits)) % 2

\* x with its d low bits cleared
ClearLow(x, d) ==
    [i \in 1..NLimbs |->
        IF i * LimbBits <= d THEN 0
        ELSE IF (i - 1) * LimbBits >= d THEN x[i]
        ELSE x[i] - (x[i] % Pow2(d - (i - 1) * LimbBits))]

RECURSIVE Carry(_, _, _)
\* the carry into limb i of x + y
Carry(x, y, i) ==
    IF i = 1 THEN 0 ELSE (x[i-1] + y[i-1] + Carry(x, y, i - 1)) \div Base

AddLimbs(x, y) == [i \in 1..NLimbs |-> (x[i] + y[i] + Carry(x, y, i)) % Base]

OneBit(d) ==
    [i \in 1..NLimbs |-> IF i = (d \div LimbBits) + 1 THEN Pow2(d % LimbBits) ELSE 0]

\* round to nearest, ties to even, keeping MantBits significant bits;
\* sticky: the exact value lies strictly above x
RoundNearestEven(x, sticky) ==
    LET d == BitLen(x) - MantBits
    IN  IF d <= 0 THEN x
        ELSE LET kept == ClearLow(x, d)
                 half == Bit(x, d - 1) = 1
                 rest == sticky \/ ClearLow(x, d - 1) # x
                 odd  == Bit(x, d) = 1
             IN  IF half /\ (rest \/ odd) THEN AddLimbs(kept, OneBit(d)) ELSE kept

\* float("<D / 10^5 written in decimal>"): the nearest binary64
ParseFloat(D) ==
    LET qr == DivRem(ShiftLimbs(ToLimbs(D), FracLimbs), TextScale, NLimbs, 0)
    IN  RoundNearestEven(qr[1], qr[2] # 0)

\* a + b on floats
FloatAdd(a, b) == RoundNearestEven(AddLimbs(a, b), FALSE)

RECURSIVE LessFrom(_, _, _)
LessFrom(a, b, i) ==
    IF i = 0 THEN FALSE
    ELSE IF a[i] # b[i] THEN a[i] < b[i] ELSE LessFrom(a, b, i - 1)

\* a <= b on floats
FloatLeq(a, b) == a = b \/ LessFrom(a, b, NLimbs)

FloatZero == ToLimbs(0)

(***************************************************************************)
(* State.                                                                  *)
(***************************************************************************)
VARIABLES
    \* PowerScanGUI
    thread,         \* self.thread: 0 is None, t > 0 the t-th ScanThread
    start_enabled,  \* start_button.isEnabled()
    stop_enabled,   \* stop_button.isEnabled()
    data_x,         \* self.data_x
    data_y,         \* self.data_y
    data_src,       \* history: the worker each stored point came from
    saved_rows,     \* rows written by the last save_data
    gui_pc,         \* "loop": in the event loop; "stop_wait" / "close_wait": inside thread.wait()
    app,            \* "running"; "closed": the window was closed; "aborted"
    events,         \* the GUI thread's queue of signal deliveries
    \* ScanThread, one record per worker
    th,             \* the worker's fields and its position in run()
    hist,           \* history of what the worker did
    \* FP_analysis.py
    an_pc, power_te, power_tm, power_raw, ratio_te, ratio_tm,
    wl_te, wl_tm, wl_raw,   \* the wavelength columns of the three files
    ind_max, ind_min,       \* the peak positions handed to calculate_loss
    loss_te, loss_tm        \* what calculate_loss returned

guiVars == <<thread, start_enabled, stop_enabled, data_x, data_y, data_src,
             saved_rows, gui_pc, app>>
wlVars == <<wl_te, wl_tm, wl_raw>>
lossVars == <<ind_max, ind_min, loss_te, loss_tm>>
anVars == <<an_pc, power_te, power_tm, power_raw, ratio_te, ratio_tm, wlVars, lossVars>>
vars == <<guiVars, events, th, hist, anVars>>

Threads == 1..MaxScans

Readings == 1..MaxReading

\* what one fm2LibGetData call does: "fail" (it returns False, or no data:
\* the buffer is left as it was) or a reading written to data_buffer[0]
Outcomes == {0} \cup Readings
SampleFailed == 0

\* The texts of the three input fields.  A text is <<>> (float() raises
\* ValueError) or <<D>>, the decimal D / 10^5; only non-negative decimals.
ScanInputs ==
    { <<<<100000>>, <<125000>>, <<25000>>>>,    \* 1.0 .. 1.25 step 0.25
      <<<<150000>>, <<100000>>, <<25000>>>>,    \* start > stop
      <<<<100000>>, <<100000>>, <<25000>>>>,    \* start = stop
      <<<<100000>>, <<150000>>, <<0>>>>,        \* step = 0
      <<<<>>, <<150000>>, <<25000>>>> }         \* not a number

\* The configurations of the single scan of SpecRun.
RunInputs ==
    { <<<<100000>>, <<125000>>, <<25000>>>>,    \* 1.0 .. 1.25 step 0.25
      <<<<100000>>, <<150000>>, <<25000>>>>,    \* 1.0 .. 1.5  step 0.25
      <<<<100000>>, <<130000>>, <<10000>>>> }   \* 1.0 .. 1.3  step 0.1

\* The configurations of the sweep arithmetic check, where the floats are
\* not exact: <<start, stop, step>> in units of 10^-5 nm.
SweepInputs ==
    { <<100000, 200000, 10000>>,          \* 1.0 .. 2.0 step 0.1
      <<100000, 130000, 10000>>,          \* 1.0 .. 1.3 step 0.1
      <<154900000, 154930000, 10000>>,    \* 1549.0 .. 1549.3 step 0.1
      <<154900000, 154950000, 5000>>,     \* 1549.0 .. 1549.5 step 0.05
      <<100000, 150000, 25000>> }         \* 1.0 .. 1.5 step 0.25

NoThread ==
    [pc |-> "none", wl_start |-> FloatZero, wl_stop |-> FloatZero,
     wl_step |-> FloatZero, wl |-> FloatZero, running |-> FALSE,
     has_laser |-> FALSE, has_comm |-> FALSE, buffer |-> 0]

\* ScanThread.__init__, then start(): run() is about to begin
NewThread(start, stop, step) ==
    [pc |-> "laser", wl_start |-> start, wl_stop |-> stop, wl_step |-> step,
     wl |-> FloatZero, running |-> TRUE,
     has_laser |-> FALSE, has_comm |-> FALSE, buffer |-> 0]

NoHist ==
    [entered |-> 0,         \* loop iterations begun
     cmds |-> 0,            \* set_wavelength commands issued
     emitted |-> <<>>,      \* new_data emissions, <<wl, power>>
     batch |-> <<>>,        \* outcomes of the current step's sample calls
     closes |-> <<>>,       \* close attempts of teardown
     logs |-> <<>>,         \* error messages logged
     finished |-> 0,        \* scan_finished emissions
     init_fault |-> FALSE,  \* a step of initialisation failed
     sweep_fault |-> FALSE, \* a device call of the sweep raised
     stop_entered |-> -1,   \* loop iterations begun when stop() was first called
     din |-> <<0, 0, 0>>]   \* the texts the scan was started from

\* FP_analysis.py has read no wavelength column and has not reached its
\* loss calculation
NoLoss ==
    /\ wl_te = <<>>
    /\ wl_tm = <<>>
    /\ wl_raw = <<>>
    /\ ind_max = <<>>
    /\ ind_min = <<>>
    /\ loss_te = "none"
    /\ loss_tm = "none"

Init ==
    /\ thread = 0
    /\ start_enabled = TRUE
    /\ stop_enabled = FALSE
    /\ data_x = <<>>
    /\ data_y = <<>>
    /\ data_src = <<>>
    /\ saved_rows = 0
    /\ gui_pc = "loop"
    /\ app = "running"
    /\ events = <<>>
    /\ th = [t \in Threads |-> NoThread]
    /\ hist = [t \in Threads |-> NoHist]
    /\ an_pc = "off"
    /\ power_te = <<>>
    /\ power_tm = <<>>
    /\ power_raw = <<>>
    /\ ratio_te = <<>>
    /\ ratio_tm = <<>>
    /\ NoLoss

(***************************************************************************)
(* ScanThread.run, one action per step of the worker.                      *)
(***************************************************************************)
At(t, pc) == th[t].pc = pc /\ app # "aborted"

Goto(t, pc) == [th EXCEPT ![t].pc = pc]

\* self.laser = TunicsLaser(self.laser_resource)
InitLaserOk(t) ==
    /\ At(t, "laser")
    /\ th' = [th EXCEPT ![t].pc = "powermeter", ![t].has_laser = TRUE]
    /\ UNCHANGED <<guiVars, events, hist, anVars>>

\* TunicsLaser() raises ConnectionError: self.laser is never assigned
InitLaserFail(t) ==
    /\ At(t, "laser")
    /\ th' = Goto(t, "except")
    /\ hist' = [hist EXCEPT ![t].init_fault = TRUE]
    /\ UNCHANGED <<guiVars, events, anVars>>

\* FM_DLL, FM_Communication, initialize, open, synchronize, FM_Measure; wl = wl_start
InitPowermeterOk(t) ==
    /\ At(t, "powermeter")
    /\ th' = [th EXCEPT ![t].pc = "loop", ![t].has_comm = TRUE,
                        ![t].buffer = 0, ![t].wl = th[t].wl_start]
    /\ UNCHANGED <<guiVars, events, hist, anVars>>

\* FM_DLL(dll_path) raises: self.comm is never assigned
InitDllFail(t) ==
    /\ At(t, "powermeter")
    /\ th' = Goto(t, "except")
    /\ hist' = [hist EXCEPT ![t].init_fault = TRUE]
    /\ UNCHANGED <<guiVars, events, anVars>>

\* a handshake failure that is not raised: the sweep goes on
InitCommFailIgnored(t) ==
    /\ At(t, "powermeter")
    /\ th' = [th EXCEPT ![t].pc = "loop", ![t].has_comm = TRUE,
                        ![t].wl = th[t].wl_start]
    /\ hist' = [hist EXCEPT ![t].init_fault = TRUE]
    /\ UNCHANGED <<guiVars, events, anVars>>

\* initialize(), open() or synchronize() raises RuntimeError: self.comm exists
InitCommFail(t) ==
    /\ At(t, "powermeter")
    /\ th' = [th EXCEPT ![t].pc = "except", ![t].has_comm = TRUE]
    /\ hist' = [hist EXCEPT ![t].init_fault = TRUE]
    /\ UNCHANGED <<guiVars, events, anVars>>

\* a loop condition that does not look at self._running
LoopTestIgnoringStop(t) ==
    /\ At(t, "loop")
    /\ IF FloatLeq(th[t].wl, th[t].wl_stop)
       THEN /\ th' = Goto(t, "set_wl")
            /\ hist' = [hist EXCEPT ![t].entered = @ + 1]
       ELSE /\ th' = Goto(t, "td_detector")
            /\ UNCHANGED hist
    /\ UNCHANGED <<guiVars, events, anVars>>

\* while wl <= self.wl_stop and self._running
LoopTest(t) ==
    /\ At(t, "loop")
    /\ IF FloatLeq(th[t].wl, th[t].wl_stop) /\ th[t].running
       THEN /\ th' = Goto(t, "set_wl")
            /\ hist' = [hist EXCEPT ![t].entered = @ + 1]
       ELSE /\ th' = Goto(t, "td_detector")
            /\ UNCHANGED hist
    /\ UNCHANGED <<guiVars, events, anVars>>

\* self.laser.set_wavelength(wl); time.sleep(self.delay)
SetWavelengthOk(t) ==
    /\ At(t, "set_wl")
    /\ th' = Goto(t, "sample")
    /\ hist' = [hist EXCEPT ![t].cmds = @ + 1]
    /\ UNCHANGED <<guiVars, events, anVars>>

\* the write to the laser raises
SetWavelengthFail(t) ==
    /\ At(t, "set_wl")
    /\ th' = Goto(t, "except")
    /\ hist' = [hist EXCEPT ![t].cmds = @ + 1, ![t].sweep_fault = TRUE]
    /\ UNCHANGED <<guiVars, events, anVars>>

\* one fm2LibGetData call on the buffer: its return value is not looked at
GetData(buffer, outcome) == IF outcome = SampleFailed THEN buffer ELSE outcome

\* a sampling that looks at the cancellation flag and gives the step up
SampleInterruptible(t, o1, o2) ==
    /\ At(t, "sample")
    /\ th' = [th EXCEPT ![t].pc = IF th[t].running THEN "emit" ELSE "td_detector",
                        ![t].buffer = GetData(GetData(th[t].buffer, o1), o2)]
    /\ hist' = [hist EXCEPT ![t].batch = IF th[t].running THEN <<o1, o2>> ELSE <<>>]
    /\ UNCHANGED <<guiVars, events, anVars>>

\* self.measure.get_measurements(iterations=2, delay=0.5) with these two outcomes
SampleWith(t, o1, o2) ==
    /\ At(t, "sample")
    /\ th' = [th EXCEPT ![t].pc = "emit",
                        ![t].buffer = GetData(GetData(th[t].buffer, o1), o2)]
    /\ hist' = [hist EXCEPT ![t].batch = <<o1, o2>>]
    /\ UNCHANGED <<guiVars, events, anVars>>

Sample(t) == \E o1 \in Outcomes, o2 \in Outcomes : SampleWith(t, o1, o2)

\* the call into the DLL raises (ctypes turns an access violation into OSError)
SampleRaise(t) ==
    /\ At(t, "sample")
    /\ th' = Goto(t, "except")
    /\ hist' = [hist EXCEPT ![t].sweep_fault = TRUE]
    /\ UNCHANGED <<guiVars, events, anVars>>

HasFailure(batch) == \E i \in 1..Len(batch) : batch[i] = SampleFailed

\* the signal new_data(wl, power) queued for the GUI thread
Post(queue, ev) == Append(queue, ev)

\* a sweep that advances by two steps at a time
EmitSkipping(t) ==
    /\ At(t, "emit")
    /\ events' = Post(events, <<"new_data", t, th[t].wl, th[t].buffer>>)
    /\ th' = [th EXCEPT ![t].pc = "loop",
                        ![t].wl = FloatAdd(FloatAdd(th[t].wl, th[t].wl_step),
                                           th[t].wl_step)]
    /\ hist' = [hist EXCEPT
                  ![t].emitted = Append(@, <<th[t].wl, th[t].buffer>>),
                  ![t].batch = <<>>]
    /\ UNCHANGED <<guiVars, anVars>>

\* power = data_buffer[0].measure; new_data.emit(wl, power); wl += self.wl_step
Emit(t) ==
    /\ At(t, "emit")
    /\ events' = Post(events, <<"new_data", t, th[t].wl, th[t].buffer>>)
    /\ th' = [th EXCEPT ![t].pc = "loop",
                        ![t].wl = FloatAdd(th[t].wl, th[t].wl_step)]
    /\ hist' = [hist EXCEPT
                  ![t].emitted = Append(@, <<th[t].wl, th[t].buffer>>),
                  ![t].batch = <<>>]
    /\ UNCHANGED <<guiVars, anVars>>

\* except Exception as e: log "Error during scan"
Except(t) ==
    /\ At(t, "except")
    /\ th' = Goto(t, "td_detector")
    /\ hist' = [hist EXCEPT ![t].logs = Append(@, "scan_error")]
    /\ UNCHANGED <<guiVars, events, anVars>>

\* a teardown whose first handler lets the exception out of the finally block
TeardownDetectorEscaping(t, raised) ==
    /\ At(t, "td_detector")
    /\ th' = Goto(t, IF raised THEN "finish" ELSE "td_source")
    /\ IF th[t].has_comm
       THEN hist' = [hist EXCEPT
                       ![t].closes = Append(@, "detector"),
                       ![t].logs = IF raised THEN Append(@, "detector_close_error") ELSE @]
       ELSE /\ ~raised
            /\ UNCHANGED hist
    /\ UNCHANGED <<guiVars, events, anVars>>

\* finally: if hasattr(self, 'comm'): comm.close(); comm.deinitialize()
\* raised: close() or deinitialize() raises, which the handler logs
TeardownDetector(t, raised) ==
    /\ At(t, "td_detector")
    /\ th' = Goto(t, "td_source")
    /\ IF th[t].has_comm
       THEN hist' = [hist EXCEPT
                       ![t].closes = Append(@, "detector"),
                       ![t].logs = IF raised THEN Append(@, "detector_close_error") ELSE @]
       ELSE /\ ~raised
            /\ UNCHANGED hist
    /\ UNCHANGED <<guiVars, events, anVars>>

\* a teardown whose second close is not wrapped: the exception of
\* laser.close() leaves run() before scan_finished is emitted
TeardownSourceEscaping(t, raised) ==
    /\ At(t, "td_source")
    /\ th' = Goto(t, IF raised THEN "done" ELSE "finish")
    /\ IF th[t].has_laser
       THEN hist' = [hist EXCEPT ![t].closes = Append(@, "source")]
       ELSE /\ ~raised
            /\ UNCHANGED hist
    /\ UNCHANGED <<guiVars, events, anVars>>

\* if hasattr(self, 'laser'): laser.close()
\* raised: close() raises, which the handler logs
TeardownSource(t, raised) ==
    /\ At(t, "td_source")
    /\ th' = Goto(t, "finish")
    /\ IF th[t].has_laser
       THEN hist' = [hist EXCEPT
                       ![t].closes = Append(@, "source"),
                       ![t].logs = IF raised THEN Append(@, "source_close_error") ELSE @]
       ELSE /\ ~raised
            /\ UNCHANGED hist
    /\ UNCHANGED <<guiVars, events, anVars>>

\* self.scan_finished.emit(); run() returns
Finish(t) ==
    /\ At(t, "finish")
    /\ events' = Post(events, <<"scan_finished", t, FloatZero, 0>>)
    /\ th' = Goto(t, "done")
    /\ hist' = [hist EXCEPT ![t].finished = @ + 1]
    /\ UNCHANGED <<guiVars, anVars>>

(***************************************************************************)
(* PowerScanGUI: the handlers the GUI thread runs from its event loop.     *)
(***************************************************************************)
InLoop == gui_pc = "loop" /\ app = "running"

Parsed(inp) == \A i \in 1..3 : Len(inp[i]) = 1

\* W to mW
ToMilliwatt(power) == power * 1000

\* start_scan up to its validation: the message of the early return, or "ok"
Validate(inp) ==
    IF ~Parsed(inp) THEN "invalid_number"
    ELSE IF FloatLeq(ParseFloat(inp[2][1]), ParseFloat(inp[1][1])) THEN "invalid_range"
    ELSE IF FloatLeq(ParseFloat(inp[3][1]), FloatZero) THEN "invalid_step"
    ELSE "ok"

\* start_scan with a configuration its validation refuses: it logs the
\* message and returns
StartScanInvalid(inp) ==
    /\ Validate(inp) # "ok"
    /\ UNCHANGED vars

PendingIn(queue, t) == \E i \in 1..Len(queue) : queue[i][2] = t

\* The assignment self.thread = ScanThread(...) releases every ScanThread
\* whose run() has returned: the object is gone, and its history with it.
\* What it emitted and the GUI has not handled yet stays in the queue.
Collect(threads) ==
    [t \in Threads |-> IF threads[t].pc = "done" THEN NoThread ELSE threads[t]]

Forget(hists) ==
    [t \in Threads |-> IF th[t].pc = "done" THEN NoHist ELSE hists[t]]

\* the record of a new worker takes the place of one that is gone and has
\* nothing left in the queue
FreeSlot(t) == th[t].pc \in {"none", "done"} /\ ~PendingIn(events, t)

NewSlot == CHOOSE t \in Threads : FreeSlot(t) /\ \A u \in Threads : FreeSlot(u) => t <= u

\* self.thread refers to a worker whose run() has not returned
Replaces == thread # 0 /\ th[thread].pc # "done"

\* start_scan past its validation: clear the store, construct and start the worker
StartScanAccept(inp) ==
    /\ Validate(inp) = "ok"
    /\ ~Replaces
    /\ \E t \in Threads : FreeSlot(t)
    /\ LET t == NewSlot
       IN  /\ thread' = t
           /\ th' = [Collect(th) EXCEPT
                        ![t] = NewThread(ParseFloat(inp[1][1]),
                                         ParseFloat(inp[2][1]),
                                         ParseFloat(inp[3][1]))]
           /\ hist' = [Forget(hist) EXCEPT
                        ![t] = [NoHist EXCEPT !.din = <<inp[1][1], inp[2][1], inp[3][1]>>]]
    /\ data_x' = <<>>
    /\ data_y' = <<>>
    /\ data_src' = <<>>
    /\ start_enabled' = FALSE
    /\ stop_enabled' = TRUE
    /\ UNCHANGED <<saved_rows, gui_pc, app, events, anVars>>

\* start_scan past its validation while self.thread is still running: the
\* store is cleared, then the assignment to self.thread releases the running
\* ScanThread, and Qt aborts the process (QThread destroyed while running)
StartScanAbort(inp) ==
    /\ Validate(inp) = "ok"
    /\ Replaces
    /\ data_x' = <<>>
    /\ data_y' = <<>>
    /\ data_src' = <<>>
    /\ app' = "aborted"
    /\ UNCHANGED <<thread, start_enabled, stop_enabled, saved_rows, gui_pc,
                   events, th, hist, anVars>>

StartScan(inp) ==
    StartScanInvalid(inp) \/ StartScanAccept(inp) \/ StartScanAbort(inp)

\* a click on the Start button: a disabled button emits no clicked signal
ClickStart ==
    /\ InLoop
    /\ start_enabled
    /\ \E inp \in ScanInputs : StartScan(inp)

\* ScanThread.stop, called by the GUI thread
StopThread(t) == [th EXCEPT ![t].running = FALSE]

NoteStop(t) ==
    [hist EXCEPT ![t].stop_entered = IF @ = -1 THEN hist[t].entered ELSE @]

\* stop_scan up to thread.wait(), which blocks the GUI thread
StopScanBegin ==
    /\ InLoop
    /\ stop_enabled
    /\ IF thread # 0
       THEN /\ th' = StopThread(thread)
            /\ hist' = NoteStop(thread)
            /\ gui_pc' = "stop_wait"
       ELSE UNCHANGED <<th, hist, gui_pc>>
    /\ UNCHANGED <<thread, start_enabled, stop_enabled, data_x, data_y, data_src,
                   saved_rows, app, events, anVars>>

\* wait() returns once run() has returned; the rest of stop_scan
StopScanEnd ==
    /\ gui_pc = "stop_wait"
    /\ th[thread].pc = "done"
    /\ thread' = 0
    /\ start_enabled' = TRUE
    /\ stop_enabled' = FALSE
    /\ gui_pc' = "loop"
    /\ UNCHANGED <<data_x, data_y, data_src, saved_rows, app, events, th, hist,
                   anVars>>

\* closeEvent up to thread.wait(), or all of it when there is no thread
CloseBegin ==
    /\ InLoop
    /\ IF thread # 0
       THEN /\ th' = StopThread(thread)
            /\ hist' = NoteStop(thread)
            /\ gui_pc' = "close_wait"
            /\ UNCHANGED app
       ELSE /\ app' = "closed"
            /\ UNCHANGED <<th, hist, gui_pc>>
    /\ UNCHANGED <<thread, start_enabled, stop_enabled, data_x, data_y, data_src,
                   saved_rows, events, anVars>>

\* wait() returns; event.accept()
CloseEnd ==
    /\ gui_pc = "close_wait"
    /\ th[thread].pc = "done"
    /\ thread' = 0
    /\ app' = "closed"
    /\ gui_pc' = "loop"
    /\ UNCHANGED <<start_enabled, stop_enabled, data_x, data_y, data_src,
                   saved_rows, events, th, hist, anVars>>

\* the delivery the event loop makes next
NextEvent(queue) == Head(queue)
RestEvents(queue) == Tail(queue)

\* update_plot(wl, power), the slot of new_data
UpdatePlot ==
    /\ InLoop
    /\ events # <<>>
    /\ LET ev == NextEvent(events)
       IN  /\ ev[1] = "new_data"
           /\ data_x' = Append(data_x, ev[3])
           /\ data_y' = Append(data_y, ToMilliwatt(ev[4]))
           /\ data_src' = Append(data_src, ev[2])
    /\ events' = RestEvents(events)
    /\ UNCHANGED <<thread, start_enabled, stop_enabled, saved_rows, gui_pc, app,
                   th, hist, anVars>>

\* save_data: nothing is written when the store is empty
SaveData == IF data_x = <<>> \/ data_y = <<>> THEN saved_rows ELSE Len(data_x)

\* a slot that empties the store once the data are saved
ScanFinishedClearing ==
    /\ InLoop
    /\ events # <<>>
    /\ NextEvent(events)[1] = "scan_finished"
    /\ start_enabled' = TRUE
    /\ stop_enabled' = FALSE
    /\ saved_rows' = SaveData
    /\ data_x' = <<>>
    /\ data_y' = <<>>
    /\ data_src' = <<>>
    /\ events' = RestEvents(events)
    /\ UNCHANGED <<thread, gui_pc, app, th, hist, anVars>>

\* scan_finished(), the slot of the signal scan_finished
ScanFinished ==
    /\ InLoop
    /\ events # <<>>
    /\ NextEvent(events)[1] = "scan_finished"
    /\ start_enabled' = TRUE
    /\ stop_enabled' = FALSE
    /\ saved_rows' = SaveData
    /\ events' = RestEvents(events)
    /\ UNCHANGED <<thread, data_x, data_y, data_src, gui_pc, app, th, hist, anVars>>

(***************************************************************************)
(* The scan application: the GUI thread and the workers it started.        *)
(***************************************************************************)
\* the steps of a worker whose instruments answer
WorkerOk(t) ==
    \/ InitLaserOk(t)
    \/ InitPowermeterOk(t)
    \/ LoopTest(t)
    \/ SetWavelengthOk(t)
    \/ Emit(t)
    \/ TeardownDetector(t, FALSE)
    \/ TeardownSource(t, FALSE)
    \/ Finish(t)

\* the steps a failing instrument adds
WorkerFault(t) ==
    \/ InitLaserFail(t)
    \/ InitDllFail(t)
    \/ InitCommFail(t)
    \/ SetWavelengthFail(t)
    \/ SampleRaise(t)
    \/ Except(t)
    \/ TeardownDetector(t, TRUE)
    \/ TeardownSource(t, TRUE)

Gui ==
    \/ ClickStart
    \/ StopScanBegin
    \/ StopScanEnd
    \/ CloseBegin
    \/ CloseEnd
    \/ UpdatePlot
    \/ ScanFinished

\* the application
Next ==
    \/ Gui
    \/ \E t \in Threads : WorkerOk(t) \/ WorkerFault(t) \/ Sample(t)

Spec == Init /\ [][Next]_vars

(***************************************************************************)
(* One scan: the user starts a single scan, may stop it or close the       *)
(* window; the instruments may fail at every step.                         *)
(***************************************************************************)
NoScanYet == thread = 0 /\ \A t \in Threads : th[t].pc = "none"

StartOnce ==
    /\ InLoop
    /\ start_enabled
    /\ NoScanYet
    /\ \E inp \in RunInputs : StartScanAccept(inp)

NextRun ==
    \/ StartOnce
    \/ StopScanBegin
    \/ StopScanEnd
    \/ CloseBegin
    \/ CloseEnd
    \/ UpdatePlot
    \/ ScanFinished
    \/ \E t \in Threads : WorkerOk(t) \/ WorkerFault(t) \/ Sample(t)

SpecRun == Init /\ [][NextRun]_vars

\* The worker is a thread of its own that the operating system keeps
\* scheduling, also while the GUI thread is blocked in wait(), and every
\* device call returns or raises: a worker that has a step to take takes one.
WorkerStep(t) == WorkerOk(t) \/ WorkerFault(t) \/ Sample(t)

SpecRunFair == SpecRun /\ \A t \in Threads : WF_vars(WorkerStep(t))

(***************************************************************************)
(* The sweep arithmetic: one scan that is never stopped, on instruments    *)
(* that answer, over configurations whose floats are inexact.              *)
(***************************************************************************)
\* the state start_scan leaves when it accepts the configuration cfg
InitSweep ==
    \E cfg \in SweepInputs :
        /\ thread = 1
        /\ start_enabled = FALSE
        /\ stop_enabled = TRUE
        /\ data_x = <<>>
        /\ data_y = <<>>
        /\ data_src = <<>>
        /\ saved_rows = 0
        /\ gui_pc = "loop"
        /\ app = "running"
        /\ events = <<>>
        /\ th = [t \in Threads |->
                   IF t = 1 THEN NewThread(ParseFloat(cfg[1]), ParseFloat(cfg[2]),
                                           ParseFloat(cfg[3]))
                   ELSE NoThread]
        /\ hist = [t \in Threads |->
                     IF t = 1 THEN [NoHist EXCEPT !.din = cfg] ELSE NoHist]
        /\ an_pc = "off"
        /\ power_te = <<>>
        /\ power_tm = <<>>
        /\ power_raw = <<>>
        /\ ratio_te = <<>>
        /\ ratio_tm = <<>>
        /\ NoLoss

NextSweep ==
    \/ UpdatePlot
    \/ ScanFinished
    \/ \E t \in Threads : WorkerOk(t) \/ SampleWith(t, 1, 1)

SpecSweep == InitSweep /\ [][NextSweep]_vars

(***************************************************************************)
(* FP_analysis.py: the normalisation of the TE and TM spectra by the raw   *)
(* spectrum.  A power is a binary64 value <<n, d>>: the number n / d in     *)
(* lowest terms with d > 0, <<0, 1>> and <<0, -1>> the zeros +0.0 and      *)
(* -0.0, <<1, 0>> and <<-1, 0>> the infinities, <<0, 0>> NaN.  The powers   *)
(* below have quotients that binary64 represents exactly.                  *)
(***************************************************************************)
Zero == <<0, 1>>
NegZero == <<0, -1>>
One == <<1, 1>>
NegTwo == <<-2, 1>>
Inf == <<1, 0>>
NaN == <<0, 0>>

\* the powers float(parts[1]) reads from the TE and TM files
Measured == {Zero, One, Inf, NaN}

\* the powers float(parts[1]) reads from the raw file
References == {Zero, NegZero, NegTwo, Inf, NaN}

IsNaN(v) == v = NaN
IsInf(v) == v[2] = 0 /\ v[1] # 0
IsZero(v) == v[1] = 0 /\ v[2] # 0
IsFinite(v) == v[2] # 0

\* the sign bit, as 1 or -1
SignOf(v) == IF v[1] = 0 THEN v[2] ELSE IF v[1] > 0 THEN 1 ELSE -1

Abs(n) == IF n < 0 THEN -n ELSE n

RECURSIVE Gcd(_, _)
Gcd(a, b) == IF b = 0 THEN a ELSE Gcd(b, a % b)

\* the binary64 quotient a / b
Div(a, b) ==
    LET sgn == SignOf(a) * SignOf(b)
    IN  IF IsNaN(a) \/ IsNaN(b) THEN NaN
        ELSE IF IsInf(a) /\ IsInf(b) THEN NaN
        ELSE IF IsZero(a) /\ IsZero(b) THEN NaN
        ELSE IF IsInf(a) \/ IsZero(b) THEN <<sgn, 0>>
        ELSE IF IsZero(a) \/ IsInf(b) THEN <<0, sgn>>
        ELSE LET n == Abs(a[1]) * b[2]
                 d == a[2] * Abs(b[1])
                 g == Gcd(n, d)
             IN  <<sgn * (n \div g), d \div g>>

\* np.zeros_like(a)
ZerosLike(a) == [i \in 1..Len(a) |-> Zero]

\* the mask power_raw != 0: -0.0 equals 0, NaN differs from everything
NotEqualZero(a) == [i \in 1..Len(a) |-> ~IsZero(a[i])]

\* numpy broadcasting of two one-dimensional arrays of n and of m entries:
\* the length of the result, an array of one entry being stretched to the
\* other's length; -1 when the shapes cannot be broadcast together
BroadcastLen(n, m) ==
    IF n = m THEN n ELSE IF n = 1 THEN m ELSE IF m = 1 THEN n ELSE -1

\* the entry of a broadcast array at position i
Item(a, i) == a[IF Len(a) = 1 THEN 1 ELSE i]

\* np.divide(x1, x2, out=out, where=where): the quotient where the mask
\* holds, and out as it was elsewhere
Divide(x1, x2, out, where) ==
    [i \in 1..Len(out) |->
        IF Item(where, i) THEN Div(Item(x1, i), Item(x2, i)) ELSE out[i]]

\* a normaliser that divides everywhere
NormalizeUnmasked(measured, reference) ==
    [i \in 1..Len(measured) |-> Div(measured[i], reference[i])]

\* np.divide(measured, power_raw, out=np.zeros_like(measured), where=power_raw != 0)
Normalize(measured, reference) ==
    Divide(measured, reference, ZerosLike(measured), NotEqualZero(reference))

\* the ufunc raises ValueError when the operands cannot be broadcast to the
\* shape of out, which is the shape of measured
NormalizeRaises(measured, reference) ==
    BroadcastLen(Len(measured), Len(reference)) # Len(measured)

\* ratio_te = ...
NormalizeTE ==
    /\ an_pc = "loaded"
    /\ IF NormalizeRaises(power_te, power_raw)
       THEN ratio_te' = ratio_te /\ an_pc' = "error"
       ELSE ratio_te' = Normalize(power_te, power_raw) /\ an_pc' = "ratio_te"
    /\ UNCHANGED <<guiVars, events, th, hist, power_te, power_tm, power_raw, ratio_tm,
                   wlVars, lossVars>>

\* ratio_tm = ...
NormalizeTM ==
    /\ an_pc = "ratio_te"
    /\ IF NormalizeRaises(power_tm, power_raw)
       THEN ratio_tm' = ratio_tm /\ an_pc' = "error"
       ELSE ratio_tm' = Normalize(power_tm, power_raw) /\ an_pc' = "normalized"
    /\ UNCHANGED <<guiVars, events, th, hist, power_te, power_tm, power_raw, ratio_te,
                   wlVars, lossVars>>

\* A wavelength of a data file is a multiple of 0.001 nm (save_data writes
\* three decimals): it is held as that multiple.  The grid of n points
\* spaced 0.001 nm from the default start wavelength, 1549.0 nm.
FirstWavelength == 1549000

Grid(n) == [i \in 1..n |-> FirstWavelength + i - 1]

Spectra(powers) == UNION {[1..n -> powers] : n \in 0..MaxLen}

\* the three files are read and hold the same number of rows; no scan
\* application is involved
InitNorm ==
    /\ thread = 0
    /\ start_enabled = TRUE
    /\ stop_enabled = FALSE
    /\ data_x = <<>>
    /\ data_y = <<>>
    /\ data_src = <<>>
    /\ saved_rows = 0
    /\ gui_pc = "loop"
    /\ app = "closed"
    /\ events = <<>>
    /\ th = [t \in Threads |-> NoThread]
    /\ hist = [t \in Threads |-> NoHist]
    /\ an_pc = "loaded"
    /\ power_te \in Spectra(Measured)
    /\ power_tm \in Spectra(Measured)
    /\ power_raw \in Spectra(References)
    /\ Len(power_te) = Len(power_raw)
    /\ Len(power_tm) = Len(power_raw)
    /\ ratio_te = <<>>
    /\ ratio_tm = <<>>
    /\ wl_te = Grid(Len(power_te))
    /\ wl_tm = Grid(Len(power_tm))
    /\ wl_raw = Grid(Len(power_raw))
    /\ ind_max = <<>>
    /\ ind_min = <<>>
    /\ loss_te = "none"
    /\ loss_tm = "none"

NextNorm == NormalizeTE \/ NormalizeTM

SpecNorm == InitNorm /\ [][NextNorm]_vars

(***************************************************************************)
(* The wavelength consistency check of FP_analysis.py.                     *)
(***************************************************************************)
Dist(x, y) == IF x >= y THEN x - y ELSE y - x

\* np.isclose(a, b) with the default rtol = 1e-5 and atol = 1e-8, on
\* wavelengths held as multiples of 0.001 nm:
\* |a - b| <= atol + rtol * |b|, both sides multiplied by 1e8
Close(a, b) == 100000 * Dist(a, b) <= 1 + Dist(b, 0)

\* np.allclose(a, b): the two arrays are broadcast against each other, which
\* raises ValueError for incompatible shapes, and all of no entries is True
AllClose(a, b) ==
    LET n == BroadcastLen(Len(a), Len(b))
    IN  IF n = -1 THEN "ValueError"
        ELSE IF \A i \in 1..n : Close(Item(a, i), Item(b, i)) THEN "true"
        ELSE "false"

\* if not (np.allclose(wl_te, wl_raw) and np.allclose(wl_tm, wl_raw)):
\*     print(...); exit()
\* the second comparison is made only when the first one is true
CheckWavelengths ==
    /\ an_pc = "read"
    /\ LET c1 == AllClose(wl_te, wl_raw)
           c2 == AllClose(wl_tm, wl_raw)
       IN  an_pc' = IF c1 = "ValueError" THEN "error"
                    ELSE IF c1 = "false" THEN "exit"
                    ELSE IF c2 = "ValueError" THEN "error"
                    ELSE IF c2 = "false" THEN "exit"
                    ELSE "loaded"
    /\ UNCHANGED <<guiVars, events, th, hist, power_te, power_tm, power_raw,
                   ratio_te, ratio_tm, wlVars, lossVars>>

\* the wavelengths of the files: the default start, one 0.001 nm row
\* further, and 0.020 nm further
Wavelengths == {FirstWavelength, FirstWavelength + 1, FirstWavelength + 20}

WavelengthArrays == UNION {[1..n -> Wavelengths] : n \in 0..MaxLen}

\* the three files are read: read_data returns as many powers as
\* wavelengths
InitGrid ==
    /\ thread = 0
    /\ start_enabled = TRUE
    /\ stop_enabled = FALSE
    /\ data_x = <<>>
    /\ data_y = <<>>
    /\ data_src = <<>>
    /\ saved_rows = 0
    /\ gui_pc = "loop"
    /\ app = "closed"
    /\ events = <<>>
    /\ th = [t \in Threads |-> NoThread]
    /\ hist = [t \in Threads |-> NoHist]
    /\ an_pc = "read"
    /\ wl_te \in WavelengthArrays
    /\ wl_tm \in WavelengthArrays
    /\ wl_raw \in WavelengthArrays
    /\ power_te = [i \in 1..Len(wl_te) |-> One]
    /\ power_tm = [i \in 1..Len(wl_tm) |-> One]
    /\ power_raw = [i \in 1..Len(wl_raw) |-> NegTwo]
    /\ ratio_te = <<>>
    /\ ratio_tm = <<>>
    /\ ind_max = <<>>
    /\ ind_min = <<>>
    /\ loss_te = "none"
    /\ loss_tm = "none"

NextGrid == CheckWavelengths \/ NormalizeTE \/ NormalizeTM

SpecGrid == InitGrid /\ [][NextGrid]_vars

(***************************************************************************)
(* The loss calculation of FP_analysis.py.  The extrema come from          *)
(* scipy.signal.find_peaks, which is not part of the sources: the indices  *)
(* it returns are drawn, maxima on the odd and minima on the even          *)
(* positions of the spectrum.  A float of the calculation is held as       *)
(* "nan" or as "value" (what the arithmetic gives on operands that are     *)
(* not the mean of an empty selection).                                    *)
(***************************************************************************)
MaxPeaks == 7

MaxValleys == 2

LossLen == 2 * MaxPeaks + 1

Maxima(n) == [i \in 1..n |-> 2 * i - 1]

Minima(m) == [i \in 1..m |-> 2 * i]

\* np.mean(power[ind]): of an empty selection it is nan, with a
\* RuntimeWarning and no exception
Mean(power, ind) == IF Len(ind) = 0 THEN "nan" ELSE "value"

\* an arithmetic operation of numpy: nan propagates, nothing is raised
Arith(a, b) == IF a = "nan" \/ b = "nan" THEN "nan" ELSE "value"

\* step = wl[1] - wl[0] raises IndexError on a spectrum of fewer than two
\* rows; otherwise the two index arrays of scipy are returned
find_peaks(wl, imax, imin) ==
    IF Len(wl) < 2
    THEN [raised |-> "IndexError", ind_max |-> <<>>, ind_min |-> <<>>]
    ELSE [raised |-> "none", ind_max |-> imax, ind_min |-> imin]

\* loc_max[5] raises IndexError when there are fewer than 6 maxima; nothing
\* else of the function raises, and the mean of no minima runs through K,
\* R_tilde and the logarithm into the returned value
calculate_loss(wl, power, imax, imin) ==
    LET mean_max == Mean(power, imax)
        mean_min == Mean(power, imin)
        K        == Arith(Arith(mean_max, mean_min), Arith(mean_max, mean_min))
        R_tilde  == Arith(Arith("value", Arith(K, K)), K)
    IN  IF Len(imax) < 6
        THEN [raised |-> "IndexError", loss |-> "none"]
        ELSE [raised |-> "none", loss |-> Arith(Arith("value", R_tilde), "value")]

\* indmax_te, indmin_te = find_peaks(wl_te, ratio_te)
FindPeaksTE ==
    /\ an_pc = "normalized"
    /\ \E n \in 0..MaxPeaks, m \in 0..MaxValleys :
          LET r == find_peaks(wl_te, Maxima(n), Minima(m))
          IN  /\ ind_max' = r.ind_max
              /\ ind_min' = r.ind_min
              /\ an_pc' = IF r.raised = "none" THEN "peaks_te" ELSE "raised"
    /\ UNCHANGED <<guiVars, events, th, hist, power_te, power_tm, power_raw,
                   ratio_te, ratio_tm, wlVars, loss_te, loss_tm>>

\* loss_te = calculate_loss(...); an exception ends the script
CalculateLossTE ==
    /\ an_pc = "peaks_te"
    /\ LET r == calculate_loss(wl_te, ratio_te, ind_max, ind_min)
       IN  /\ loss_te' = r.loss
           /\ an_pc' = IF r.raised = "none" THEN "loss_te" ELSE "raised"
    /\ UNCHANGED <<guiVars, events, th, hist, power_te, power_tm, power_raw,
                   ratio_te, ratio_tm, wlVars, ind_max, ind_min, loss_tm>>

\* indmax_tm, indmin_tm = find_peaks(wl_tm, ratio_tm)
FindPeaksTM ==
    /\ an_pc = "loss_te"
    /\ \E n \in 0..MaxPeaks, m \in 0..MaxValleys :
          LET r == find_peaks(wl_tm, Maxima(n), Minima(m))
          IN  /\ ind_max' = r.ind_max
              /\ ind_min' = r.ind_min
              /\ an_pc' = IF r.raised = "none" THEN "peaks_tm" ELSE "raised"
    /\ UNCHANGED <<guiVars, events, th, hist, power_te, power_tm, power_raw,
                   ratio_te, ratio_tm, wlVars, loss_te, loss_tm>>

\* loss_tm = calculate_loss(...)
CalculateLossTM ==
    /\ an_pc = "peaks_tm"
    /\ LET r == calculate_loss(wl_tm, ratio_tm, ind_max, ind_min)
       IN  /\ loss_tm' = r.loss
           /\ an_pc' = IF r.raised = "none" THEN "loss_tm" ELSE "raised"
    /\ UNCHANGED <<guiVars, events, th, hist, power_te, power_tm, power_raw,
                   ratio_te, ratio_tm, wlVars, ind_max, ind_min, loss_te>>

\* a fringe pattern of LossLen rows, or a file of a single row, on a
\* reference of ones, after the normalisation
Fringes(n) == [i \in 1..n |-> IF i % 2 = 1 THEN One ELSE Zero]

InitLoss ==
    /\ thread = 0
    /\ start_enabled = TRUE
    /\ stop_enabled = FALSE
    /\ data_x = <<>>
    /\ data_y = <<>>
    /\ data_src = <<>>
    /\ saved_rows = 0
    /\ gui_pc = "loop"
    /\ app = "closed"
    /\ events = <<>>
    /\ th = [t \in Threads |-> NoThread]
    /\ hist = [t \in Threads |-> NoHist]
    /\ an_pc = "normalized"
    /\ \E n \in {1, LossLen} :
          /\ power_te = Fringes(n)
          /\ power_tm = Fringes(n)
          /\ power_raw = [i \in 1..n |-> One]
          /\ wl_te = Grid(n)
          /\ wl_tm = Grid(n)
          /\ wl_raw = Grid(n)
    /\ ratio_te = Normalize(power_te, power_raw)
    /\ ratio_tm = Normalize(power_tm, power_raw)
    /\ ind_max = <<>>
    /\ ind_min = <<>>
    /\ loss_te = "none"
    /\ loss_tm = "none"

NextLoss == FindPeaksTE \/ CalculateLossTE \/ FindPeaksTM \/ CalculateLossTM

SpecLoss == InitLoss /\ [][NextLoss]_vars

(***************************************************************************)
(* Properties.                                                             *)
(***************************************************************************)
\* run() of worker t has returned, stop() was never called on it and no
\* device call failed
Undisturbed(t) ==
    /\ th[t].pc = "done"
    /\ hist[t].stop_entered = -1
    /\ ~hist[t].init_fault
    /\ ~hist[t].sweep_fault

\* floor((stop - start) / step) + 1 of the configuration the scan was started from
GridSize(t) == (hist[t].din[2] - hist[t].din[1]) \div hist[t].din[3] + 1

\* C1: a run of ScanThread.run in which stop() is never called and no device
\* call fails emits exactly floor((stop-start)/step) + 1 new_data
\* observations before scan_finished is emitted.
C1_ObservationCount ==
    \A t \in Threads :
        Undisturbed(t) => Len(hist[t].emitted) = GridSize(t)

\* the grid point of index k of worker t's configuration, start + k * step,
\* in units of 10^-5 nm
GridPoint(t, k) == hist[t].din[1] + k * hist[t].din[3]

FloatLess(a, b) == ~FloatLeq(b, a)

\* the float wl is the grid point of index k: it differs from it by less
\* than 10^-5 nm, the resolution of the configuration
OnGrid(wl, t, k) ==
    /\ FloatLess(ParseFloat(GridPoint(t, k) - 1), wl)
    /\ FloatLess(wl, ParseFloat(GridPoint(t, k) + 1))

\* C2: in any run (completed, cancelled or faulted) the emitted observations
\* are a prefix of the grid start, start+step, ... <= stop: the k-th
\* observation is at the k-th grid point, wavelengths are strictly
\* increasing, each set_wavelength command yields at most one observation,
\* and data_x holds the emitted wavelengths in the order of emission.
C2_GridPrefix ==
    /\ \A t \in Threads :
          LET e == hist[t].emitted
          IN  /\ \A k \in 1..Len(e) :
                    /\ OnGrid(e[k][1], t, k - 1)
                    /\ FloatLeq(e[k][1], th[t].wl_stop)
              /\ \A k \in 1..(Len(e) - 1) : FloatLess(e[k][1], e[k + 1][1])
              /\ Len(e) <= hist[t].cmds
              /\ hist[t].cmds <= Len(e) + 1
    /\ \A i \in 1..Len(data_x) :
          /\ i <= Len(hist[data_src[i]].emitted)
          /\ data_x[i] = hist[data_src[i]].emitted[i][1]

\* a finished run on the 0.1 nm grid, whose floats are inexact, with its
\* three observations in the store
C2_Witness ==
    \E t \in Threads :
        /\ th[t].pc = "done"
        /\ hist[t].din[3] = 10000
        /\ Len(hist[t].emitted) = 3
        /\ Len(data_x) = 3

\* run() of worker t has returned after stop() was called on it, and no
\* device call failed
Cancelled(t) ==
    /\ th[t].pc = "done"
    /\ hist[t].stop_entered >= 0
    /\ ~hist[t].init_fault
    /\ ~hist[t].sweep_fault

\* the step by which stop_scan returns from thread.wait()
StopScanReturns == gui_pc = "stop_wait" /\ gui_pc' = "loop"

WorkerCreated == \E t \in Threads : th'[t].pc = "laser" /\ th[t].pc # "laser"

\* C4: a start request arriving while a scan is still active is rejected:
\* no step taken while the worker self.thread refers to is running creates
\* another worker, clears the collected observations or ends the
\* application.
C4_StartWhileActiveRejected ==
    [][Replaces =>
        /\ ~WorkerCreated
        /\ thread' = thread
        /\ Len(data_x') >= Len(data_x)
        /\ app' # "aborted"]_vars

\* the close attempts of a teardown that closes what run() acquired
Acquired(t) ==
    (IF th[t].has_comm THEN <<"detector">> ELSE <<>>)
        \o (IF th[t].has_laser THEN <<"source">> ELSE <<>>)

Logged(t, msg) == \E i \in 1..Len(hist[t].logs) : hist[t].logs[i] = msg

\* C5 as stated: on every exit path of run() (normal completion,
\* cancellation, an exception at any point of initialization or sweeping)
\* teardown attempts to close the detector session and then the source.
C5_AlwaysClosesBoth ==
    \A t \in Threads :
        th[t].pc = "done" => hist[t].closes = <<"detector", "source">>

\* C5, amended: on every exit path of run() teardown attempts to close each
\* instrument run() had acquired, the detector before the source; an
\* exception raised by a close is logged, does not escape run()
\* (scan_finished is emitted) and does not prevent the other close attempt.
C5_TeardownClosesAcquired ==
    \A t \in Threads :
        /\ th[t].pc \in {"finish", "done"} => hist[t].closes = Acquired(t)
        /\ th[t].pc = "done" => hist[t].finished = 1
        /\ th[t].pc \in {"td_source", "finish", "done"} /\ ~th[t].has_comm
              => ~Logged(t, "detector_close_error")

\* closing the detector raised after a sweep: the source was closed all the same
C5_Witness ==
    \E t \in Threads :
        /\ th[t].pc = "done"
        /\ Logged(t, "detector_close_error")
        /\ hist[t].closes = <<"detector", "source">>
        /\ Len(hist[t].emitted) >= 1
        /\ hist[t].finished = 1

\* C6: if a step of initialization fails, no set_wavelength command is
\* issued and no observation is emitted, the failure is logged instead of
\* leaving run(), and teardown still runs: what was acquired is closed and
\* scan_finished is emitted.
C6_InitFailureSkipsSweep ==
    \A t \in Threads :
        hist[t].init_fault =>
            /\ hist[t].cmds = 0
            /\ hist[t].entered = 0
            /\ hist[t].emitted = <<>>
            /\ th[t].pc \in {"except", "td_detector", "td_source", "finish", "done"}
            /\ th[t].pc # "except" => Logged(t, "scan_error")
            /\ th[t].pc = "done" =>
                  hist[t].closes = Acquired(t) /\ hist[t].finished = 1

\* the handshake with the detector failed: both instruments were closed
C6_Witness ==
    \E t \in Threads :
        /\ hist[t].init_fault
        /\ th[t].pc = "done"
        /\ hist[t].closes = <<"detector", "source">>
        /\ hist[t].finished = 1

\* C7: cancellation is looked at only at the step boundary.  A step that has
\* issued its set_wavelength command goes on to sample and, unless the
\* sampling raises, to emit its observation whatever the flag is; after
\* stop() no further loop iteration begins, and once the loop was left no
\* set_wavelength command is issued.
C7_CooperativeCancel ==
    /\ [](\A t \in Threads :
            /\ hist[t].stop_entered >= 0 =>
                  /\ hist[t].entered = hist[t].stop_entered
                  /\ hist[t].cmds <= hist[t].stop_entered
            /\ th[t].pc = "done" /\ ~hist[t].sweep_fault /\ ~hist[t].init_fault
                  => Len(hist[t].emitted) = hist[t].cmds)
    /\ [][\A t \in Threads :
            /\ th[t].pc = "sample" =>
                  \/ th'[t].pc \in {"sample", "emit"}
                  \/ th'[t].pc = "except" /\ hist'[t].sweep_fault
            /\ th[t].pc = "emit" /\ th'[t].pc # "emit" =>
                  /\ th'[t].pc = "loop"
                  /\ Len(hist'[t].emitted) = Len(hist[t].emitted) + 1
            /\ th[t].pc \in {"td_detector", "td_source", "finish", "done"} =>
                  hist'[t].cmds = hist[t].cmds]_vars

\* stop() was called while the second of more than two steps was in flight:
\* the step has sampled and is at its emission
C7_Witness ==
    \E t \in Threads :
        /\ ~th[t].running
        /\ th[t].pc = "emit"
        /\ hist[t].stop_entered = 2
        /\ Len(hist[t].emitted) = 1
        /\ GridSize(t) > 2

\* C8: a failed or timed-out detector sample call aborts the sweep at that
\* step: no observation is emitted for a step one of whose sample calls failed.
C8_FailedSampleAborts ==
    \A t \in Threads :
        th[t].pc = "emit" => ~HasFailure(hist[t].batch)

\* the positions of the store that hold observations of worker t
StoreIndex(t) ==
    SelectSeq([i \in 1..Len(data_src) |-> i], LAMBDA i : data_src[i] = t)

\* the (wavelength, power in W) pairs the store holds of worker t, in order
StoreOf(t) ==
    [k \in 1..Len(StoreIndex(t)) |->
        <<data_x[StoreIndex(t)[k]], data_y[StoreIndex(t)[k]]>>]

\* the observations of worker t that are still in the queue, in order
QueuedIndex(t) ==
    SelectSeq([i \in 1..Len(events) |-> i],
              LAMBDA i : events[i][1] = "new_data" /\ events[i][2] = t)

QueuedOf(t) ==
    [k \in 1..Len(QueuedIndex(t)) |->
        <<events[QueuedIndex(t)[k]][3], 1000 * events[QueuedIndex(t)[k]][4]>>]

\* what worker t emitted, with the power in mW
EmittedOf(t) ==
    [k \in 1..Len(hist[t].emitted) |->
        <<hist[t].emitted[k][1], 1000 * hist[t].emitted[k][2]>>]

\* the step of a start request that passed validation
AcceptedStart == WorkerCreated \/ (app # "aborted" /\ app' = "aborted")

\* C9: no error loses collected data.  As long as no later start request is
\* accepted, every observation a worker emitted is in the store or on its
\* way to it, unchanged and in order, whatever fault, cancellation or
\* teardown failure occurs; when the GUI comes to the worker's
\* scan_finished the store holds all of them; and the store only changes by
\* receiving one observation or by an accepted start request emptying it.
C9_NoDataLoss ==
    /\ [](\A t \in Threads :
            /\ th[t].pc # "none" /\ app # "aborted"
                  => StoreOf(t) \o QueuedOf(t) = EmittedOf(t)
            /\ ( /\ th[t].pc = "done"
                 /\ events # <<>>
                 /\ Head(events)[1] = "scan_finished"
                 /\ Head(events)[2] = t )
                  => StoreOf(t) = EmittedOf(t))
    /\ [][<<data_x, data_y>>' # <<data_x, data_y>> =>
            \/ /\ Len(data_x') = Len(data_x) + 1
               /\ SubSeq(data_x', 1, Len(data_x)) = data_x
               /\ SubSeq(data_y', 1, Len(data_y)) = data_y
            \/ /\ AcceptedStart
               /\ data_x' = <<>>
               /\ data_y' = <<>>]_vars

\* set_wavelength failed after one observation and closing the detector
\* raised: the GUI is at the worker's scan_finished and the store holds
\* the observation
C9_Witness ==
    \E t \in Threads :
        /\ th[t].pc = "done"
        /\ hist[t].sweep_fault
        /\ Logged(t, "detector_close_error")
        /\ Len(hist[t].emitted) = 1
        /\ events # <<>>
        /\ Head(events)[1] = "scan_finished"
        /\ Head(events)[2] = t
        /\ data_x = <<hist[t].emitted[1][1]>>

\* r is the quotient m / ref of a finite m by a finite ref other than zero:
\* r * ref = m, and a zero quotient has the sign of the quotient
IsQuotient(r, m, ref) ==
    /\ IsFinite(r)
    /\ r[1] * ref[1] * m[2] = m[1] * r[2] * ref[2]
    /\ SignOf(r) = SignOf(m) * SignOf(ref)

\* ratio is the normalisation of measured by reference
Normalized(ratio, measured, reference) ==
    /\ Len(ratio) = Len(measured)
    /\ \A i \in 1..Len(ratio) :
          IF IsZero(reference[i]) THEN ratio[i] = Zero
          ELSE IF IsFinite(reference[i]) /\ IsFinite(measured[i])
               THEN IsQuotient(ratio[i], measured[i], reference[i])
          ELSE IF IsNaN(reference[i]) \/ IsNaN(measured[i]) THEN IsNaN(ratio[i])
          ELSE IF IsInf(reference[i]) /\ IsInf(measured[i]) THEN IsNaN(ratio[i])
          ELSE IF IsInf(reference[i]) THEN IsZero(ratio[i])
          ELSE IsInf(ratio[i])

\* C10: for equal-length measured and reference spectra and every index i,
\* if the reference power at i is exactly 0 the normalized power at i is
\* exactly 0 (not NaN, not an infinity), and otherwise it is
\* measured[i] / reference[i].
C10_Normalizer ==
    /\ an_pc \in {"ratio_te", "normalized"} =>
          Normalized(ratio_te, power_te, power_raw)
    /\ an_pc = "normalized" => Normalized(ratio_tm, power_tm, power_raw)

\* a reference of -0.0 under a measured 1 and under a measured NaN, and a
\* non-zero reference beside it
C10_Witness ==
    /\ an_pc = "normalized"
    /\ power_raw = <<NegZero, NegTwo>>
    /\ power_te = <<One, One>>
    /\ power_tm = <<NaN, Zero>>
    /\ ratio_te = <<Zero, <<-1, 2>>>>
    /\ ratio_tm = <<Zero, NegZero>>


\* C11: whenever the maxima index sequence has fewer than 6 entries or the
\* minima index sequence is empty, the loss calculation raises and returns
\* no loss value: a loss is returned only for at least 6 maxima and at
\* least one minimum
FewFringes == Len(ind_max) < 6 \/ Len(ind_min) = 0

C11_InsufficientFringes ==
    /\ an_pc = "loss_te" => ~FewFringes
    /\ an_pc = "loss_tm" => ~FewFringes

\* C12: whenever the wavelength array of a mode spectrum differs from the
\* raw-reference wavelength array by more than the tolerance at some index,
\* or the two arrays have different lengths, the script stops at the
\* consistency check: no normalization is performed
Mismatch(a, b) ==
    \/ Len(a) # Len(b)
    \/ \E i \in 1..Len(a) : ~Close(a[i], b[i])

C12_GridMismatch ==
    (Mismatch(wl_te, wl_raw) \/ Mismatch(wl_tm, wl_raw)) =>
        an_pc \in {"read", "exit", "error"} /\ ratio_te = <<>> /\ ratio_tm = <<>>

\* C13: at each wavelength step the detector is sampled twice and the power
\* of the observation is the first valid reading of that batch: a reading
\* returned by the later sample call never replaces it.
Valid(batch) == SelectSeq(batch, LAMBDA o : o # SampleFailed)

C13_FirstValidReading ==
    \A t \in Threads :
        th[t].pc = "emit" =>
            /\ Len(hist[t].batch) = 2
            /\ Valid(hist[t].batch) # <<>> =>
                  th[t].buffer = Head(Valid(hist[t].batch))

\* the positions of the queue that hold the scan_finished of worker t
FinishedIndex(t) ==
    SelectSeq([i \in 1..Len(events) |-> i],
              LAMBDA i : events[i][1] = "scan_finished" /\ events[i][2] = t)

\* scan_finished is the last thing run() does: it is emitted once, when both
\* teardown attempts are over, and nothing of the worker follows it in the queue
FinishedLast(t) ==
    /\ hist[t].finished <= 1
    /\ Len(FinishedIndex(t)) <= hist[t].finished
    /\ hist[t].finished = 1 <=> th[t].pc = "done"
    /\ hist[t].finished = 1 => hist[t].closes = Acquired(t)
    /\ \A i \in 1..Len(events) :
          (events[i][1] = "scan_finished" /\ events[i][2] = t) =>
              \A j \in (i + 1)..Len(events) : events[j][2] # t

\* once scan_finished is emitted the worker does nothing more: no
\* observation, no command, no close, no second scan_finished
Effects(h) == <<h.entered, h.cmds, h.emitted, h.closes, h.logs, h.finished>>

FinishedFrozen(t) ==
    hist[t].finished = 1 =>
        Effects(hist'[t]) = Effects(hist[t]) /\ th'[t].pc = th[t].pc

\* C14: every started run() terminates and emits scan_finished exactly once,
\* as its last event, after both teardown attempts and after every new_data
\* of that run, on all paths: completion, cancellation, initialization
\* fault, sweep fault and teardown fault.
C14_RunTerminates ==
    /\ [](\A t \in Threads : FinishedLast(t))
    /\ [][\A t \in Threads : FinishedFrozen(t)]_vars
    /\ \A t \in Threads :
          (th[t].pc # "none") ~> (th[t].pc = "done" /\ hist[t].finished = 1)

\* a run that emitted an observation, was cut short by a device fault of the
\* sweep, failed to close the source, and emitted scan_finished
C14_Witness ==
    \E t \in Threads :
        /\ th[t].pc = "done"
        /\ hist[t].finished = 1
        /\ hist[t].sweep_fault
        /\ Logged(t, "source_close_error")
        /\ Len(hist[t].emitted) >= 1
        /\ hist[t].closes = <<"detector", "source">>

\* the workers whose run() has begun and has not returned
Active == {t \in Threads : th[t].pc \notin {"none", "done"}}

\* C15: under every interleaving of Start, Stop and close with the worker
\* and the queued delivery of its signals, at most one worker is running,
\* and the Start button is never enabled while a worker that has not
\* finished its teardown exists.
C15_SingleWorker ==
    /\ Cardinality(Active) <= 1
    /\ (app = "running" /\ start_enabled) => Active = {}

====
